---- MODULE Spec2Model ----
\* A model of tools/sqllogictest/sqllogictest.cpp: the record loop of main,
\* ProcessExtraOptions and ResultCompare.  Text blocks are sequences of
\* character codes; session calls are logged in `calls`.
EXTENDS Integers, Sequences, FiniteSets, TLC

\* ---------------------------------------------------------------- bounds
\* longest text block handed to ResultCompare in SpecCmp
MaxLen == 3
\* longest record stream in Spec
MaxRecords == 2
\* cap on the session's write and delete counters
MaxCount == 2
\* most lines of a plan text in SpecPlan
MaxPlanLines == 3

\* ------------------------------------------------------------ characters
\* the delimiter of std::getline in SplitLines
NL == 10

\* newline, space, 'a', 'b'
Alphabet == {NL, 32, 97, 98}

\* std::isspace in the "C" locale, as used by StringUtil::RTrim
IsSpace(c) == c \in {9, 10, 11, 12, 13, 32}

\* all sequences over S of length at most n
SeqUpTo(S, n) == UNION {[1..k -> S] : k \in 0..n}

\* ------------------------------------------------------ result comparator
\* StringUtil::RTrim: erase the trailing run of whitespace characters
RECURSIVE RTrim(_)
RTrim(line) ==
    IF line = <<>> THEN line
    ELSE IF IsSpace(line[Len(line)]) THEN RTrim(SubSeq(line, 1, Len(line) - 1))
    ELSE line

\* (mutation) blank lines are kept
EmplaceLineKeepsBlank(result, line) == Append(result, RTrim(line))

\* body of the while loop of SplitLines: trim the line, keep it if not empty
EmplaceLine(result, line) ==
    LET trimmed == RTrim(line)
    IN IF trimmed # <<>> THEN Append(result, trimmed) ELSE result

\* while (std::getline(linestream, line, '\n')) over the characters from i on;
\* `line` holds the characters extracted so far.  At end of input getline
\* succeeds only if it extracted at least one character.
RECURSIVE GetLineLoop(_, _, _, _)
GetLineLoop(lines, i, line, result) ==
    IF i > Len(lines)
    THEN IF line # <<>> THEN EmplaceLine(result, line) ELSE result
    ELSE IF lines[i] = NL
         THEN GetLineLoop(lines, i + 1, <<>>, EmplaceLine(result, line))
         ELSE GetLineLoop(lines, i + 1, Append(line, lines[i]), result)

SplitLines(lines) == GetLineLoop(lines, 1, <<>>, <<>>)

\* std::string operator<: lexicographic on character codes, a proper prefix first
RECURSIVE StrLess(_, _)
StrLess(s, t) ==
    IF t = <<>> THEN FALSE
    ELSE IF s = <<>> THEN TRUE
    ELSE IF s[1] # t[1] THEN s[1] < t[1]
    ELSE StrLess(Tail(s), Tail(t))

\* std::sort on a vector of strings (the result of a sort by a total order is
\* unique, so insertion sort stands for it)
RECURSIVE SortInsert(_, _)
SortInsert(x, sorted) ==
    IF sorted = <<>> THEN <<x>>
    ELSE IF StrLess(x, sorted[1]) THEN <<x>> \o sorted
    ELSE <<sorted[1]>> \o SortInsert(x, Tail(sorted))

RECURSIVE StdSort(_)
StdSort(v) == IF v = <<>> THEN <<>> ELSE SortInsert(v[1], StdSort(Tail(v)))

\* (mutation) the sort mode is ignored
ComparedLinesUnsorted(text, sort_mode) == SplitLines(text)

\* a_lines / b_lines of ResultCompare as they stand at the comparison
ComparedLines(text, sort_mode) ==
    LET split == SplitLines(text)
    IN IF sort_mode = "ROWSORT" THEN StdSort(split) ELSE split

\* cmp_result of ResultCompare
ResultCompare(produced_result, expected_result, sort_mode) ==
    ComparedLines(produced_result, sort_mode) = ComparedLines(expected_result, sort_mode)

\* (mutation) the dump does not look at the result of the comparison
DumpsDiffOnAnyResult(cmp_result, dump_diff) == dump_diff

\* the guard of the diff dump in ResultCompare
DumpsDiff(cmp_result, dump_diff) == ~cmp_result /\ dump_diff

\* ------------------------------------------------- StringUtil on tokens
\* Plan texts and directives are sequences of tokens: the markers the code
\* searches for are tokens of their own, so substring search is token search.
Contains(haystack, needle) == \E i \in 1..Len(haystack) : haystack[i] = needle

\* haystack.find(keyword), then haystack.find(needle, pos)
ContainsAfter(keyword, haystack, needle) ==
    \E i \in 1..Len(haystack) :
        /\ haystack[i] = keyword
        /\ \A h \in 1..(i - 1) : haystack[h] # keyword
        /\ \E j \in i..Len(haystack) : haystack[j] = needle

Count(str, tok) == Cardinality({i \in 1..Len(str) : str[i] = tok})

\* StringUtil::Split: the pieces between occurrences of the separator, empty
\* pieces dropped; the input itself when no piece is left
RECURSIVE SplitLoop(_, _, _, _, _)
SplitLoop(input, sep, i, piece, splits) ==
    LET push == IF piece # <<>> THEN Append(splits, piece) ELSE splits
    IN IF i > Len(input) THEN push
       ELSE IF input[i] = sep THEN SplitLoop(input, sep, i + 1, <<>>, push)
       ELSE SplitLoop(input, sep, i + 1, Append(piece, input[i]), splits)

Split(input, sep) ==
    LET splits == SplitLoop(input, sep, 1, <<>>, <<>>)
    IN IF splits = <<>> THEN <<input>> ELSE splits

\* StringUtil::LTrim on a tokenised line: drop the leading blanks
RECURSIVE LTrim(_)
LTrim(line) == IF line # <<>> /\ line[1] = " " THEN LTrim(Tail(line)) ELSE line

StartsWith(str, prefix) == str # <<>> /\ str[1] = prefix

\* std::stoi on the numerals the directives of the model carry
Stoi == ("0" :> 0) @@ ("1" :> 1) @@ ("2" :> 2) @@ ("3" :> 3)

\* ---------------------------------------------------- directive processor
\* A directive is the sequence of its colon-separated segments, as
\* Split(opt, ":") gives them: "ensure:index_scan" is <<"ensure", "index_scan">>.
\* The token "quote-comma" of a plan line stands for the two characters ",
\* that close one column of a column list.

\* the scan of the plan's lines for ensure:column-pruned, from line k on
RECURSIVE ColumnPrunedLoop(_, _, _, _)
ColumnPrunedLoop(lines, k, expected_cols_proj, expected_cols_agg) ==
    IF k > Len(lines) THEN TRUE
    ELSE LET line == LTrim(lines[k])
         IN IF StartsWith(line, "Agg")
            THEN LET cols == Split(line, "],")
                 IN IF Len(cols) # 3 THEN FALSE
                    ELSE \A i \in 1..2 : Count(cols[i], "quote-comma") + 1 <= expected_cols_agg
            ELSE IF /\ StartsWith(line, "Projection")
                    /\ Count(line, "quote-comma") + 1 > expected_cols_proj
                 THEN FALSE
                 ELSE ColumnPrunedLoop(lines, k + 1, expected_cols_proj, expected_cols_agg)

\* (mutation) the hash-join assertions count occurrences and nothing else
EnsureVerdictCountsOnly(opt, plan) ==
    IF Len(Split(plan, "HashJoin")) = 2 THEN "pass" ELSE "false"

\* (mutation) every assertion holds on every plan
EnsureVerdictPasses(opt, plan) == "pass"

\* the ensure: branch of ProcessExtraOptions on the captured plan text:
\* "pass" (falls through to the next directive), "false" (return false) or
\* "throw" (NotImplementedException)
EnsureVerdict(opt, plan) ==
    LET ok(b) == IF b THEN "pass" ELSE "false"
        hash_joins == Len(Split(plan, "HashJoin"))
    IN IF opt = <<"ensure", "index_scan">> THEN ok(Contains(plan, "IndexScan"))
       ELSE IF opt = <<"ensure", "seq_scan">>
       THEN ok(~(Contains(plan, "IndexScan") \/ ContainsAfter("OPTIMIZER", plan, "Filter")))
       ELSE IF opt = <<"ensure", "hash_join">>
       THEN ok(~(hash_joins # 2 /\ ~Contains(plan, "Filter")))
       ELSE IF opt = <<"ensure", "hash_join_no_filter">>
       THEN ok(~(hash_joins # 2 \/ ContainsAfter("OPTIMIZER", plan, "Filter")))
       ELSE IF opt = <<"ensure", "hash_join*2">>
       THEN ok(~(hash_joins # 3 /\ ~Contains(plan, "Filter")))
       ELSE IF opt = <<"ensure", "hash_join*3">>
       THEN ok(~(hash_joins # 4 /\ ~Contains(plan, "Filter")))
       ELSE IF opt = <<"ensure", "topn">> THEN ok(Contains(plan, "TopN"))
       ELSE IF opt = <<"ensure", "topn*2">> THEN ok(Len(Split(plan, "TopN")) = 3)
       ELSE IF opt = <<"ensure", "index_join">> THEN ok(Contains(plan, "NestedIndexJoin"))
       ELSE IF opt = <<"ensure", "nlj_init_check">> THEN ok(Contains(plan, "NestedLoopJoin"))
       ELSE IF Len(opt) >= 2 /\ opt[2] = "column-pruned"
       THEN IF Len(opt) # 4 THEN "throw"
            ELSE ok(ColumnPrunedLoop(Split(plan, "\n"), 1, Stoi[opt[3]], Stoi[opt[4]]))
       ELSE "throw"

\* the check options a passing ensure: directive switches on
EnsureEnables(opt) ==
    IF opt \in {<<"ensure", "topn">>, <<"ensure", "topn*2">>} THEN {"ENABLE_TOPN_CHECK"}
    ELSE IF opt = <<"ensure", "nlj_init_check">> THEN {"ENABLE_NLJ_CHECK"}
    ELSE {}

\* the x<N> segments of a timing directive and the count std::stoi reads
RepeatArg == ("x0" :> 0) @@ ("x1" :> 1) @@ ("x2" :> 2) @@ ("x3" :> 3)
\* the .<label> segments
LabelArg == {".", ".bench"}

\* the argument loop of the timing branch: TRUE iff no segment makes it throw
TimingArgsOk(opt) ==
    \A k \in 2..Len(opt) : opt[k] \in DOMAIN RepeatArg \/ opt[k] \in LabelArg

\* (mutation) the x<N> argument is ignored
TimingRepeatOnce(opt) == 1

\* repeat after the argument loop: 1, or the count of the last x<N> segment
TimingRepeat(opt) ==
    LET xs == {k \in 2..Len(opt) : opt[k] \in DOMAIN RepeatArg}
    IN IF xs = {} THEN 1
       ELSE RepeatArg[opt[CHOOSE k \in xs : \A h \in xs : h <= k]]

\* the pieces with the separator between them: the text Split takes apart
RECURSIVE JoinOn(_, _)
JoinOn(pieces, sep) ==
    IF pieces = <<>> THEN <<>>
    ELSE IF Len(pieces) = 1 THEN pieces[1]
    ELSE pieces[1] \o <<sep>> \o JoinOn(Tail(pieces), sep)

\* an explain directive as the text the branch splits: the token "explain"
\* alone, or the token "explain:" followed by the option tail
ExplainText(opt) ==
    IF Len(opt) = 1 THEN <<"explain">>
    ELSE <<"explain:">> \o JoinOn([k \in 1..(Len(opt) - 1) |-> <<opt[k + 1]>>], ":")

\* the SQL text the explain branch sends: x = Split(opt, "explain:"), then
\* "explain (x[0]) sql" if x[0] is not empty and "explain sql" otherwise
ExplainSql(opt, sql) ==
    LET x == Split(ExplainText(opt), "explain:")
    IN IF x # <<>> /\ x[1] # <<>>
       THEN <<"explain (">> \o x[1] \o <<") ", sql>>
       ELSE <<"explain ", sql>>

\* ------------------------------------------------------------------ state
VARIABLES
    records,          \* result of SQLLogicTestParser::Parse
    verbose,          \* --verbose
    diff,             \* --diff
    min_disk_write,   \* --check-min-disk-write: <<>> when not used, else <<n>>
    max_disk_write,   \* --check-max-disk-write
    min_disk_delete,  \* --check-min-disk-delete
    prior,            \* history: <<>>, or <<the outcome of an earlier run of this script>>
    idx,              \* position of the record loop in records
    pc,               \* "start", "loop", "opts", "timing", "exec", "compare", "exit"
    check_options,    \* check_options->check_options_set_ of the current record
    opt_idx,          \* position of ProcessExtraOptions in extra_options
    repeat,           \* repeat of the timing branch
    duration,         \* duration of the timing branch
    result_str,       \* result.str() of a query's main execution
    exit_code,        \* value returned by main, meaningful when pc = "exit"
    num_writes,       \* disk_manager_->GetNumWrites()
    num_deletes,      \* disk_manager_->GetNumDeletes()
    result_log,       \* the file result.log
    expected_log,     \* the file expected.log
    stdout,           \* the lines printed to standard output, in order
    calls,            \* history: every ExecuteSql call issued, in order
    obs               \* history: what the record at idx has met so far

vars == <<records, verbose, diff, min_disk_write, max_disk_write, min_disk_delete, prior,
          idx, pc, check_options, opt_idx, repeat, duration, result_str, exit_code,
          num_writes, num_deletes, result_log, expected_log, stdout, calls, obs>>

program == <<records, verbose, diff, min_disk_write, max_disk_write, min_disk_delete, prior>>
counters == <<num_writes, num_deletes>>
files == <<result_log, expected_log>>
timing == <<repeat, duration>>

\* ---------------------------------------------------------------- inputs
HaltRecord == [type |-> "HALT"]
SleepRecord == [type |-> "SLEEP", seconds |-> 1]
StatementRecord(is_error, extra_options) ==
    [type |-> "STATEMENT", sql |-> "stmt", is_error |-> is_error,
     extra_options |-> extra_options]
QueryRecord(expected_result, sort_mode, extra_options) ==
    [type |-> "QUERY", sql |-> "query", expected_result |-> expected_result,
     sort_mode |-> sort_mode, extra_options |-> extra_options]

SortModes == {"NOSORT", "ROWSORT"}

\* "b\na", "a\nb" and "a \n\nb\n"
TextBA == <<98, NL, 97>>
TextAB == <<97, NL, 98>>
TextABPadded == <<97, 32, NL, NL, 98, NL>>

\* plan texts EXPLAIN (o) answers with
PlanIndexScan == <<"OPTIMIZER", "\n", "IndexScan">>
PlanSeqScan == <<"OPTIMIZER", "\n", "SeqScan">>
Plans == {PlanIndexScan, PlanSeqScan}

\* rendered outputs a query's main execution answers with
Outputs == {TextAB, TextABPadded, TextBA}

\* ----------------------------------------------------------- the session
\* What the session may do with a record's SQL: whether ExecuteSql throws,
\* which plan EXPLAIN (o) renders, which output a query renders, and what one
\* execution adds to the disk counters (<<writes, deletes>>).
AnySession ==
    [throws |-> BOOLEAN, plans |-> Plans, outputs |-> Outputs,
     effects |-> {<<0, 0>>, <<1, 0>>, <<0, 1>>}]

\* plans of "ordered": one top-N node over a nested-loop join, two top-N
\* nodes, and neither
PlanTopN == <<"OPTIMIZER", "\n", "TopN", "{}", "\n", "NestedLoopJoin", "{}">>
PlanTopNTwice == <<"OPTIMIZER", "\n", "TopN", "{}", "\n", "TopN", "{}">>
OrderedPlans == {PlanTopN, PlanTopNTwice, PlanSeqScan}

\* the lines of the plans of "select"
\* a column list of n entries: "c1", "c2", ... with ", between two entries
Cols(n) == [i \in 1..(2 * n - 1) |-> IF i % 2 = 1 THEN "col" ELSE "quote-comma"]
OptimizerLine == <<"OPTIMIZER">>
HashJoinLine == <<" ", "HashJoin", "{}">>
FilterLine == <<" ", "Filter", "{}">>
ProjectionLine(n) == <<"Projection", "{">> \o Cols(n) \o <<"}">>
AggLine(g, a) == <<" ", "Agg", "{">> \o Cols(g) \o <<"],">> \o Cols(a) \o <<"],", "}">>
MalformedAggLine == <<"Agg", "}">>
PlanLines ==
    {OptimizerLine, HashJoinLine, FilterLine, MalformedAggLine}
    \cup {ProjectionLine(n) : n \in 1..3}
    \cup {<<" ">> \o ProjectionLine(3)}
    \cup {AggLine(1, 1), AggLine(4, 1), AggLine(1, 4), AggLine(2, 3)}

\* every plan of one to MaxPlanLines of these lines
PlanShapes ==
    {JoinOn(ls, "\n") : ls \in SeqUpTo(PlanLines, MaxPlanLines) \ {<<>>}}

\* "stmt" and "query" are SQL texts the session may answer in any way;
\* "ordered" is a SQL text planned with top-N and join nodes, which writes
\* at most one page and renders "b\na"
\* SQL texts the session answers in one way only: "insert" writes a page,
\* "bad" throws, "ab" is planned as a sequential scan and renders "a\nb"
FixedSession ==
    ("insert" :> [throws |-> {FALSE}, plans |-> {PlanIndexScan}, outputs |-> {TextBA},
                  effects |-> {<<1, 0>>}])
    @@ ("bad" :> [throws |-> {TRUE}, plans |-> {PlanSeqScan}, outputs |-> {TextBA},
                  effects |-> {<<0, 0>>}])
    @@ ("ab" :> [throws |-> {FALSE}, plans |-> {PlanSeqScan}, outputs |-> {TextAB},
                 effects |-> {<<0, 0>>}])

\* "select" is a SQL text that never throws and may be planned in any shape.
Session(sql) ==
    IF sql = "select"
    THEN [throws |-> {FALSE}, plans |-> PlanShapes, outputs |-> {TextBA},
          effects |-> {<<0, 0>>}]
    ELSE IF sql \in DOMAIN FixedSession THEN FixedSession[sql]
    ELSE IF sql = "ordered"
    THEN [throws |-> BOOLEAN, plans |-> OrderedPlans, outputs |-> {TextBA},
          effects |-> {<<0, 0>>, <<1, 0>>}]
    ELSE AnySession

StatementOptions ==
    { <<>>, << <<"ensure", "index_scan">> >>, << <<"bogus">> >>, << <<"timing", "x2">> >>,
      << <<"timing", "oops">> >> }
QueryOptions ==
    { <<>>, << <<"ensure", "nope">> >>, << <<"explain", "o">> >>,
      << <<"ensure", "index_scan">> >> }

RecordUniverse ==
    {HaltRecord, SleepRecord}
    \cup {StatementRecord(e, o) : e \in BOOLEAN, o \in StatementOptions}
    \cup {QueryRecord(TextBA, "NOSORT", o) : o \in QueryOptions}
    \cup {QueryRecord(TextBA, "ROWSORT", <<>>)}

\* a threshold option: not used, or used with the value 1
Threshold == {<<>>, <<1>>}

\* a log file nothing has tried to open
Untouched == [written |-> FALSE, open_failed |-> FALSE, lines |-> <<>>]
FreshObs(i) == [rec |-> i, opts |-> "none", exec |-> "none", cmp |-> "none", plan |-> <<>>]

\* ------------------------------------------------------------------- Init
Init ==
    /\ records \in SeqUpTo(RecordUniverse, MaxRecords)
    /\ verbose \in BOOLEAN
    /\ diff \in BOOLEAN
    /\ \E t \in Threshold :
          /\ min_disk_write = t
          /\ max_disk_write = t
          /\ min_disk_delete = t
    /\ prior = <<>>
    /\ idx = 1
    /\ pc = "start"
    /\ check_options = {}
    /\ opt_idx = 1
    /\ repeat = 1
    /\ duration = <<>>
    /\ result_str = <<>>
    /\ exit_code = 0
    /\ num_writes = 0
    /\ num_deletes = 0
    /\ result_log = Untouched
    /\ expected_log = Untouched
    /\ stdout = <<>>
    /\ calls = <<>>
    /\ obs = FreshObs(1)

\* ---------------------------------------------------------------- helpers
Record == records[idx]
Opt == Record.extra_options[opt_idx]

\* bustub::NotImplementedException derives from bustub::Exception, so the
\* handlers catch (bustub::Exception &) of main catch both
IsBustubException(ex) == ex \in {"Exception", "NotImplementedException"}

\* (mutation) a return that goes on with the next record
ReturnGoesOn(n) == pc' = "loop" /\ exit_code' = n /\ idx' = idx + 1

\* return n from main
Return(n) == pc' = "exit" /\ exit_code' = n /\ idx' = idx

\* continue: on to the next record
Continue == pc' = "loop" /\ idx' = idx + 1 /\ exit_code' = exit_code

\* (mutation) the handlers never absorb an exception
CatchAlwaysFatal(ex) == pc' = "exit" /\ exit_code' = 1 /\ idx' = idx

\* (mutation) the handlers absorb every exception
CatchSwallows(ex) == pc' = "loop" /\ idx' = idx + 1 /\ exit_code' = exit_code

\* an exception thrown inside the try block of the current record: the
\* STATEMENT handler returns 1 unless is_error_, the QUERY handler returns 1;
\* anything else leaves main through std::terminate
Catch(ex) ==
    IF ~IsBustubException(ex) THEN Return(134)
    ELSE IF Record.type = "STATEMENT" /\ Record.is_error THEN Continue
    ELSE Return(1)

\* (mutation) every call is issued with the default CheckOptions
ExecuteSqlDefaultOptions(sql, check) ==
    calls' = Append(calls, [rec |-> idx, sql |-> sql, check |-> <<>>])

\* instance.ExecuteSql(sql, writer, check): check is <<>> for the default
ExecuteSql(sql, check) ==
    calls' = Append(calls, [rec |-> idx, sql |-> sql, check |-> check])

\* ------------------------------------------------------- standard output
\* A printed line is its fixed text (kind) and the value formatted into it.
Line(kind, arg) == [kind |-> kind, arg |-> arg]
Text(kind) == Line(kind, <<>>)

\* fmt::print: the lines are appended to standard output
Emit(lines) == stdout' = stdout \o lines

\* the lines printed only under --verbose
Verbose(lines) == IF verbose THEN lines ELSE <<>>

\* fmt::print("{}\n", record->loc_)
Loc(i) == Line("loc", i)

\* record->ToString()
RecordToString(record) == Line("record", record.type)

\* "[PASS] extra check: {opt}" after a directive that did not fail
PassNotice(opt) == Verbose(<<Line("[PASS] extra check:", opt)>>)

\* the message an ensure: branch prints before it returns false
EnsureMessage(opt) ==
    IF opt = <<"ensure", "index_scan">> THEN "IndexScan not found"
    ELSE IF opt = <<"ensure", "seq_scan">> THEN "SeqScan on not indexed columns"
    ELSE IF opt = <<"ensure", "hash_join">> THEN "HashJoin not found"
    ELSE IF opt = <<"ensure", "hash_join_no_filter">> THEN "Push all filters into HashJoin"
    ELSE IF opt = <<"ensure", "hash_join*2">> THEN "HashJoin should appear exactly twice"
    ELSE IF opt = <<"ensure", "hash_join*3">> THEN "HashJoin should appear exactly thrice"
    ELSE IF opt = <<"ensure", "topn">> THEN "TopN not found"
    ELSE IF opt = <<"ensure", "topn*2">> THEN "TopN should appear exactly twice"
    ELSE IF opt = <<"ensure", "index_join">> THEN "NestedIndexJoin not found"
    ELSE IF opt = <<"ensure", "nlj_init_check">> THEN "NestedLoopJoin not found"
    ELSE "wrong column pruning"

\* label of the timing branch with its leading dot, as the summary line
\* prints it: the last .<label> segment, "." when there is none
TimingLabel(opt) ==
    LET ls == {k \in 2..Len(opt) : opt[k] \in LabelArg}
    IN IF ls = {} THEN "." ELSE opt[CHOOSE k \in ls : \A h \in ls : h <= k]

\* the line between <<<BEGIN and >>>END: ".{label}" and " {x}" for each x
SummaryLine(label, values) == Line("summary", [label |-> label, values |-> values])

\* what the handler of the current record prints for a caught exception
CatchOutput(ex) ==
    IF ~IsBustubException(ex) THEN <<>>
    ELSE IF Record.type = "STATEMENT"
    THEN IF ~Record.is_error THEN <<Text("unexpected error")>>
         ELSE Verbose(<<Text("statement errored")>>)
    ELSE <<Text("unexpected error")>>

\* what one execution of the record's SQL adds to the disk counters
Effect ==
    \E e \in Session(Record.sql).effects :
        /\ num_writes + e[1] <= MaxCount
        /\ num_deletes + e[2] <= MaxCount
        /\ num_writes' = num_writes + e[1]
        /\ num_deletes' = num_deletes + e[2]

\* ExecuteSql may throw / may return on the record's SQL
MayThrow == TRUE \in Session(Record.sql).throws
MayReturn == FALSE \in Session(Record.sql).throws

\* ----------------------------------------------------------- record loop
\* Parse gave no record: "This is not tested this semester", return 0
Start ==
    /\ pc = "start"
    /\ IF records = <<>>
       THEN Return(0) /\ Emit(<<Text("This is not tested this semester")>>)
       ELSE pc' = "loop" /\ UNCHANGED <<idx, exit_code, stdout>>
    /\ UNCHANGED <<program, check_options, opt_idx, timing, result_str, counters,
                   files, calls, obs>>

\* (mutation) a HALT record that leaves the loop for the threshold checks
HaltBreaks ==
    /\ pc = "loop" /\ idx <= Len(records)
    /\ records[idx].type = "HALT"
    /\ pc' = "loop" /\ idx' = Len(records) + 1 /\ exit_code' = exit_code
    /\ check_options' = {}
    /\ obs' = FreshObs(idx)
    /\ UNCHANGED <<program, opt_idx, timing, result_str, counters, files, calls, stdout>>

\* (mutation) a HALT record that is skipped like a SLEEP record
HaltSkipped ==
    /\ pc = "loop" /\ idx <= Len(records)
    /\ records[idx].type = "HALT"
    /\ pc' = "loop" /\ idx' = idx + 1 /\ exit_code' = exit_code
    /\ check_options' = {}
    /\ obs' = FreshObs(idx)
    /\ UNCHANGED <<program, opt_idx, timing, result_str, counters, files, calls, stdout>>

\* case HALT: return 0
Halt ==
    /\ pc = "loop" /\ idx <= Len(records)
    /\ Record.type = "HALT"
    /\ Return(0)
    /\ check_options' = {}
    /\ obs' = FreshObs(idx)
    /\ Emit(<<Loc(idx)>> \o Verbose(<<RecordToString(Record)>>))
    /\ UNCHANGED <<program, opt_idx, timing, result_str, counters, files, calls>>

\* case SLEEP: sleep, continue
Sleep ==
    /\ pc = "loop" /\ idx <= Len(records)
    /\ Record.type = "SLEEP"
    /\ Continue
    /\ check_options' = {}
    /\ obs' = FreshObs(idx)
    /\ Emit(<<Loc(idx)>> \o Verbose(<<RecordToString(Record)>>))
    /\ UNCHANGED <<program, opt_idx, timing, result_str, counters, files, calls>>

\* (mutation) the CheckOptions of the record before are kept
BeginRecordKeepsOptions ==
    /\ pc = "loop" /\ idx <= Len(records)
    /\ Record.type \in {"STATEMENT", "QUERY"}
    /\ pc' = "opts"
    /\ opt_idx' = 1
    /\ check_options' = check_options
    /\ obs' = FreshObs(idx)
    /\ UNCHANGED <<program, idx, exit_code, timing, result_str, counters, files, calls,
                   stdout>>

\* case STATEMENT / case QUERY: a fresh CheckOptions, then into
\* ProcessExtraOptions at its first directive
BeginRecord ==
    /\ pc = "loop" /\ idx <= Len(records)
    /\ Record.type \in {"STATEMENT", "QUERY"}
    /\ pc' = "opts"
    /\ opt_idx' = 1
    /\ check_options' = {}
    /\ obs' = FreshObs(idx)
    /\ Emit(<<Loc(idx)>>
            \o Verbose(<<Line("sql", Record.sql)>>
                       \o IF Record.extra_options # <<>>
                          THEN <<Line("Extra checks:", Record.extra_options)>>
                          ELSE <<>>))
    /\ UNCHANGED <<program, idx, exit_code, timing, result_str, counters, files, calls>>

\* ------------------------------------------------- ProcessExtraOptions
InOptions == pc = "opts" /\ opt_idx <= Len(Record.extra_options)

\* a directive "ensure:...": EXPLAIN (o), then the assertion on the plan
OptEnsure ==
    /\ InOptions
    /\ Opt[1] = "ensure" /\ Len(Opt) >= 2
    /\ ExecuteSql(<<"explain (o) ", Record.sql>>, <<>>)
    /\ \/ /\ MayThrow
          /\ obs' = [obs EXCEPT !.opts = "engine_error"]
          /\ Catch("Exception")
          /\ Emit(CatchOutput("Exception"))
          /\ UNCHANGED <<check_options, opt_idx>>
       \/ /\ MayReturn
          /\ \E plan \in Session(Record.sql).plans :
                LET verdict == EnsureVerdict(Opt, plan)
                IN \/ /\ verdict = "pass"
                      /\ check_options' = check_options \cup EnsureEnables(Opt)
                      /\ opt_idx' = opt_idx + 1
                      /\ obs' = [obs EXCEPT !.plan = plan]
                      /\ Emit(PassNotice(Opt))
                      /\ UNCHANGED <<pc, idx, exit_code>>
                   \/ /\ verdict = "false"
                      /\ obs' = [obs EXCEPT !.opts = "false", !.plan = plan]
                      /\ Return(1)
                      /\ Emit(<<Text(EnsureMessage(Opt)),
                                Text("failed to process extra options")>>)
                      /\ UNCHANGED <<check_options, opt_idx>>
                   \/ /\ verdict = "throw"
                      /\ obs' = [obs EXCEPT !.opts = "config_error", !.plan = plan]
                      /\ Catch("NotImplementedException")
                      /\ Emit(CatchOutput("NotImplementedException"))
                      /\ UNCHANGED <<check_options, opt_idx>>
    /\ UNCHANGED <<program, timing, result_str, counters, files>>

\* a directive "timing...": the argument loop
OptTiming ==
    /\ InOptions
    /\ Opt[1] = "timing"
    /\ IF TimingArgsOk(Opt)
       THEN /\ repeat' = TimingRepeat(Opt)
            /\ duration' = <<>>
            /\ pc' = "timing"
            /\ UNCHANGED <<idx, exit_code, obs, stdout>>
       ELSE /\ obs' = [obs EXCEPT !.opts = "config_error"]
            /\ Catch("NotImplementedException")
            /\ Emit(CatchOutput("NotImplementedException"))
            /\ UNCHANGED timing
    /\ UNCHANGED <<program, check_options, opt_idx, result_str, counters, files, calls>>

\* one pass of the timing loop: the SQL against a NoopWriter
TimingRun ==
    /\ pc = "timing"
    /\ Len(duration) < repeat
    /\ ExecuteSql(<<Record.sql>>, <<>>)
    /\ \/ /\ MayThrow
          /\ obs' = [obs EXCEPT !.opts = "engine_error"]
          /\ Catch("Exception")
          /\ Emit(CatchOutput("Exception"))
          /\ UNCHANGED <<duration, counters>>
       \/ /\ MayReturn
          /\ \E dur \in {0} : duration' = Append(duration, dur)
          /\ Effect
          /\ Emit(<<Line("timing pass complete", Len(duration) + 1)>>)
          /\ UNCHANGED <<pc, idx, exit_code, obs>>
    /\ UNCHANGED <<program, check_options, opt_idx, repeat, result_str, files>>

\* after the timing loop: the summary block, then the next directive
TimingReport ==
    /\ pc = "timing"
    /\ Len(duration) >= repeat
    /\ pc' = "opts"
    /\ opt_idx' = opt_idx + 1
    /\ Emit(<<Text("<<<BEGIN"), SummaryLine(TimingLabel(Opt), duration), Text(">>>END")>>
            \o PassNotice(Opt))
    /\ UNCHANGED <<program, idx, exit_code, check_options, timing, result_str,
                   counters, files, calls, obs>>

\* a directive "explain...": EXPLAIN streamed to std::cout
OptExplain ==
    /\ InOptions
    /\ Opt[1] = "explain"
    /\ ExecuteSql(ExplainSql(Opt, Record.sql), <<>>)
    /\ \/ /\ MayThrow
          /\ obs' = [obs EXCEPT !.opts = "engine_error"]
          /\ Catch("Exception")
          /\ Emit(CatchOutput("Exception"))
          /\ UNCHANGED opt_idx
       \/ /\ MayReturn
          /\ opt_idx' = opt_idx + 1
          /\ Emit(<<Line("plan of", Record.sql)>> \o PassNotice(Opt))
          /\ UNCHANGED <<pc, idx, exit_code, obs>>
    /\ UNCHANGED <<program, check_options, timing, result_str, counters, files>>

\* any other directive: NotImplementedException
OptUnsupported ==
    /\ InOptions
    /\ ~(Opt[1] = "ensure" /\ Len(Opt) >= 2)
    /\ Opt[1] \notin {"timing", "explain"}
    /\ obs' = [obs EXCEPT !.opts = "config_error"]
    /\ Catch("NotImplementedException")
    /\ Emit(CatchOutput("NotImplementedException"))
    /\ UNCHANGED <<program, check_options, opt_idx, timing, result_str, counters,
                   files, calls>>

\* the directive loop is over: return true
OptsDone ==
    /\ pc = "opts"
    /\ opt_idx > Len(Record.extra_options)
    /\ pc' = "exec"
    /\ obs' = [obs EXCEPT !.opts = "true"]
    /\ UNCHANGED <<program, idx, exit_code, check_options, opt_idx, timing,
                   result_str, counters, files, calls, stdout>>

\* -------------------------------------------------------- main execution
\* case STATEMENT after ProcessExtraOptions: ExecuteSql with check_options,
\* "statement should error" when it returns and is_error_ is set
ExecStatement ==
    /\ pc = "exec"
    /\ Record.type = "STATEMENT"
    /\ ExecuteSql(<<Record.sql>>, <<check_options>>)
    /\ \/ /\ MayThrow
          /\ obs' = [obs EXCEPT !.exec = "threw"]
          /\ Catch("Exception")
          /\ Emit(CatchOutput("Exception"))
          /\ UNCHANGED counters
       \/ /\ MayReturn
          /\ obs' = [obs EXCEPT !.exec = "ok"]
          /\ Effect
          /\ IF Record.is_error THEN Return(1) ELSE Continue
          /\ Emit(Verbose(<<Text("----"), Line("result of", Record.sql)>>)
                  \o IF Record.is_error THEN <<Text("statement should error")>> ELSE <<>>)
    /\ UNCHANGED <<program, check_options, opt_idx, timing, result_str, files>>

\* case QUERY after ProcessExtraOptions: ExecuteSql into a string stream
ExecQuery ==
    /\ pc = "exec"
    /\ Record.type = "QUERY"
    /\ ExecuteSql(<<Record.sql>>, <<check_options>>)
    /\ \/ /\ MayThrow
          /\ obs' = [obs EXCEPT !.exec = "threw"]
          /\ Catch("Exception")
          /\ Emit(CatchOutput("Exception"))
          /\ UNCHANGED result_str
       \/ /\ MayReturn
          /\ obs' = [obs EXCEPT !.exec = "ok"]
          /\ \E out \in Session(Record.sql).outputs : result_str' = out
          /\ pc' = "compare"
          /\ Emit(Verbose(<<Line("--- YOUR RESULT ---", result_str'),
                            Line("--- EXPECTED RESULT ---", Record.expected_result)>>))
          /\ UNCHANGED <<idx, exit_code>>
    /\ UNCHANGED <<program, check_options, opt_idx, timing, counters, files>>

\* a log file opened with std::ios_base::trunc and written one line per entry
WriteLog(lines) == [written |-> TRUE, open_failed |-> FALSE, lines |-> lines]

\* a log file whose std::ofstream did not open: "cannot open file"
OpenFails == [written |-> FALSE, open_failed |-> TRUE, lines |-> <<>>]

\* (mutation) the value ResultCompare returns is dropped
AfterCompareIgnores(cmp_result) == pc' = "loop" /\ idx' = idx + 1 /\ exit_code' = exit_code

\* (mutation) a mismatch that is dumped lets the run go on
AfterCompareDumpedGoesOn(cmp_result) ==
    IF cmp_result \/ diff THEN Continue ELSE Return(1)

\* what main does with the value ResultCompare returns
AfterCompare(cmp_result) == IF cmp_result THEN Continue ELSE Return(1)

\* the "wrong result" line main prints on a mismatch
WrongResult(cmp_result) ==
    IF cmp_result THEN <<>>
    ELSE IF diff THEN <<Line("wrong result dumped to result.log and expected.log",
                             Record.sort_mode)>>
    ELSE <<Line("wrong result, use -d", Record.sort_mode)>>

\* ResultCompare on the captured output and what main does with its result:
\* continue on equality, return 1 on a mismatch or on "cannot open file"
Compare ==
    /\ pc = "compare"
    /\ LET a_lines == ComparedLines(result_str, Record.sort_mode)
           b_lines == ComparedLines(Record.expected_result, Record.sort_mode)
           cmp_result == ResultCompare(result_str, Record.expected_result, Record.sort_mode)
       IN /\ obs' = [obs EXCEPT !.cmp = IF cmp_result THEN "equal" ELSE "unequal"]
          /\ IF DumpsDiff(cmp_result, diff)
             THEN \/ /\ result_log' = OpenFails
                     /\ UNCHANGED expected_log
                     /\ Catch("Exception")
                     /\ Emit(CatchOutput("Exception"))
                  \/ /\ result_log' = WriteLog(a_lines)
                     /\ expected_log' = OpenFails
                     /\ Catch("Exception")
                     /\ Emit(CatchOutput("Exception"))
                  \/ /\ result_log' = WriteLog(a_lines)
                     /\ expected_log' = WriteLog(b_lines)
                     /\ AfterCompare(cmp_result)
                     /\ Emit(WrongResult(cmp_result))
             ELSE /\ UNCHANGED files
                  /\ AfterCompare(cmp_result)
                  /\ Emit(WrongResult(cmp_result))
    /\ UNCHANGED <<program, check_options, opt_idx, timing, result_str, counters, calls>>

\* after the loop: the disk counters against the thresholds in use
EndOfStream ==
    /\ pc = "loop"
    /\ idx > Len(records)
    /\ IF min_disk_write # <<>> /\ num_writes < min_disk_write[1]
       THEN Return(1) /\ Emit(<<Line("disk write too low", num_writes)>>)
       ELSE IF max_disk_write # <<>> /\ num_writes > max_disk_write[1]
       THEN Return(1) /\ Emit(<<Line("disk write too high", num_writes)>>)
       ELSE IF min_disk_delete # <<>> /\ num_deletes < min_disk_delete[1]
       THEN Return(1) /\ Emit(<<Line("disk deletion too low", num_deletes)>>)
       ELSE Return(0) /\ UNCHANGED stdout
    /\ obs' = FreshObs(idx)
    /\ UNCHANGED <<program, check_options, opt_idx, timing, result_str, counters,
                   files, calls>>

Next ==
    \/ Start
    \/ Halt
    \/ Sleep
    \/ BeginRecord
    \/ OptEnsure
    \/ OptTiming
    \/ TimingRun
    \/ TimingReport
    \/ OptExplain
    \/ OptUnsupported
    \/ OptsDone
    \/ ExecStatement
    \/ ExecQuery
    \/ Compare
    \/ EndOfStream

Spec == Init /\ [][Next]_vars

\* ------------------------------------------- the comparator on its own
\* A query whose main execution has just returned: every expected block,
\* every produced block and both sort modes, about to be compared.
InitCmp ==
    /\ \E e \in SeqUpTo(Alphabet, MaxLen), m \in SortModes :
          records = <<QueryRecord(e, m, <<>>)>>
    /\ result_str \in SeqUpTo(Alphabet, MaxLen)
    /\ verbose = FALSE
    /\ diff \in BOOLEAN
    /\ min_disk_write = <<>>
    /\ max_disk_write = <<>>
    /\ min_disk_delete = <<>>
    /\ prior = <<>>
    /\ idx = 1
    /\ pc = "compare"
    /\ check_options = {}
    /\ opt_idx = 1
    /\ repeat = 1
    /\ duration = <<>>
    /\ exit_code = 0
    /\ num_writes = 0
    /\ num_deletes = 0
    /\ result_log = Untouched
    /\ expected_log = Untouched
    /\ stdout = <<Loc(1)>>
    /\ calls = <<[rec |-> 1, sql |-> <<"query">>, check |-> <<{}>>]>>
    /\ obs = [FreshObs(1) EXCEPT !.opts = "true", !.exec = "ok"]

NextCmp == Compare

SpecCmp == InitCmp /\ [][NextCmp]_vars

\* the same without diff persistence: ResultCompare as a function of its
\* two blocks and the sort mode
InitNoDiff == InitCmp /\ diff = FALSE

SpecNoDiff == InitNoDiff /\ [][NextCmp]_vars

\* ------------------------------------------- the directives on their own
\* main at the head of the record loop, nothing executed yet
AtEntry ==
    /\ idx = 1
    /\ pc = "start"
    /\ check_options = {}
    /\ opt_idx = 1
    /\ repeat = 1
    /\ duration = <<>>
    /\ result_str = <<>>
    /\ exit_code = 0
    /\ num_writes = 0
    /\ num_deletes = 0
    /\ result_log = Untouched
    /\ expected_log = Untouched
    /\ stdout = <<>>
    /\ calls = <<>>
    /\ obs = FreshObs(1)

\* a record over another SQL text
On(sql, record) == [record EXCEPT !.sql = sql]

\* directive lists: plan assertions that switch on check options, a failing
\* assertion followed by another directive, timing and explain
DirectiveLists ==
    { << <<"ensure", "topn">> >>,
      << <<"ensure", "topn*2">> >>,
      << <<"ensure", "nlj_init_check">> >>,
      << <<"ensure", "topn">>, <<"ensure", "nlj_init_check">> >>,
      << <<"ensure", "index_scan">>, <<"explain">> >>,
      << <<"timing">> >>,
      << <<"timing", "x0">> >>,
      << <<"timing", "x1">> >>,
      << <<"timing", "x2", ".bench">> >>,
      << <<"explain">> >>,
      << <<"explain", "o">> >> }

DirectiveRecords ==
    {On("ordered", StatementRecord(FALSE, o)) : o \in DirectiveLists}
    \cup {On("ordered", StatementRecord(TRUE, << <<"ensure", "index_scan">>, <<"explain">> >>)),
          On("ordered", QueryRecord(TextBA, "NOSORT", << <<"ensure", "topn">> >>)),
          On("ordered", QueryRecord(TextBA, "NOSORT", << <<"timing", "x1">> >>)),
          On("ordered", QueryRecord(TextAB, "NOSORT",
                                    << <<"ensure", "index_scan">>, <<"timing", "x1">> >>))}

InitOpts ==
    /\ records \in SeqUpTo(DirectiveRecords, MaxRecords)
    /\ verbose \in BOOLEAN
    /\ diff = FALSE
    /\ min_disk_write = <<>>
    /\ max_disk_write = <<>>
    /\ min_disk_delete = <<>>
    /\ prior = <<>>
    /\ AtEntry

NextOpts ==
    \/ Start
    \/ BeginRecord
    \/ OptEnsure
    \/ OptTiming
    \/ TimingRun
    \/ TimingReport
    \/ OptExplain
    \/ OptsDone
    \/ ExecStatement
    \/ ExecQuery
    \/ Compare
    \/ EndOfStream

SpecOpts == InitOpts /\ [][NextOpts]_vars

\* ------------------------------------------ the plan assertions on their own
PlanDirectives ==
    { <<"ensure", "hash_join">>, <<"ensure", "hash_join*2">>, <<"ensure", "hash_join*3">>,
      <<"ensure", "hash_join_no_filter">>,
      <<"ensure", "column-pruned", "2", "3">>, <<"ensure", "column-pruned", "1", "1">> }

\* ProcessExtraOptions entered for a statement with one plan assertion
InitPlan ==
    /\ \E d \in PlanDirectives :
          records = <<On("select", StatementRecord(FALSE, <<d>>))>>
    /\ verbose = FALSE
    /\ diff = FALSE
    /\ min_disk_write = <<>>
    /\ max_disk_write = <<>>
    /\ min_disk_delete = <<>>
    /\ prior = <<>>
    /\ idx = 1
    /\ pc = "opts"
    /\ check_options = {}
    /\ opt_idx = 1
    /\ repeat = 1
    /\ duration = <<>>
    /\ result_str = <<>>
    /\ exit_code = 0
    /\ num_writes = 0
    /\ num_deletes = 0
    /\ result_log = Untouched
    /\ expected_log = Untouched
    /\ stdout = <<Loc(1)>>
    /\ calls = <<>>
    /\ obs = FreshObs(1)

NextPlan == OptEnsure

SpecPlan == InitPlan /\ [][NextPlan]_vars

\* ------------------------------------------------ the end-of-run thresholds
\* a threshold option: not used, or used with the value 1 or 2
ThresholdValues == {<<>>, <<1>>, <<2>>}

\* control records and statements without directives
PlainRecords ==
    {HaltRecord, SleepRecord, StatementRecord(FALSE, <<>>), StatementRecord(TRUE, <<>>)}

InitThr ==
    /\ records \in SeqUpTo(PlainRecords, MaxRecords)
    /\ verbose = FALSE
    /\ diff = FALSE
    /\ min_disk_write \in ThresholdValues
    /\ max_disk_write \in ThresholdValues
    /\ min_disk_delete \in ThresholdValues
    /\ prior = <<>>
    /\ AtEntry

NextThr ==
    \/ Start
    \/ Halt
    \/ Sleep
    \/ BeginRecord
    \/ OptsDone
    \/ ExecStatement
    \/ EndOfStream

SpecThr == InitThr /\ [][NextThr]_vars

\* ------------------------------------------------- one script, run twice
\* records whose SQL the session answers in one way only
PairRecords ==
    { HaltRecord, SleepRecord,
      On("insert", StatementRecord(FALSE, <<>>)),
      On("insert", StatementRecord(FALSE, << <<"ensure", "index_scan">> >>)),
      On("bad", StatementRecord(TRUE, <<>>)),
      On("bad", StatementRecord(FALSE, <<>>)),
      On("ab", QueryRecord(TextBA, "ROWSORT", <<>>)),
      On("ab", QueryRecord(TextBA, "NOSORT", <<>>)),
      On("ab", QueryRecord(TextAB, "NOSORT", << <<"explain", "o">> >>)),
      On("ab", QueryRecord(TextAB, "NOSORT", << <<"ensure", "index_scan">> >>)) }

InitPair ==
    /\ records \in SeqUpTo(PairRecords, MaxRecords)
    /\ verbose \in BOOLEAN
    /\ diff \in BOOLEAN
    /\ \E t \in Threshold :
          /\ min_disk_write = t
          /\ max_disk_write = t
          /\ min_disk_delete = t
    /\ prior = <<>>
    /\ AtEntry

\* main has returned; the same script is run again on a fresh session with
\* another choice of --verbose and --diff, the outcome of the first run kept
Rerun ==
    /\ pc = "exit"
    /\ prior = <<>>
    /\ prior' = <<[verbose |-> verbose, diff |-> diff, calls |-> calls, idx |-> idx,
                   exit_code |-> exit_code]>>
    /\ \E v \in BOOLEAN, d \in BOOLEAN :
          /\ <<v, d>> # <<verbose, diff>>
          /\ verbose' = v
          /\ diff' = d
    /\ idx' = 1
    /\ pc' = "start"
    /\ check_options' = {}
    /\ opt_idx' = 1
    /\ repeat' = 1
    /\ duration' = <<>>
    /\ result_str' = <<>>
    /\ exit_code' = 0
    /\ num_writes' = 0
    /\ num_deletes' = 0
    /\ stdout' = <<>>
    /\ calls' = <<>>
    /\ obs' = FreshObs(1)
    /\ UNCHANGED <<records, min_disk_write, max_disk_write, min_disk_delete, files>>

NextPair ==
    \/ Start
    \/ Halt
    \/ Sleep
    \/ BeginRecord
    \/ OptEnsure
    \/ OptExplain
    \/ OptsDone
    \/ ExecStatement
    \/ ExecQuery
    \/ Compare
    \/ EndOfStream
    \/ Rerun

SpecPair == InitPair /\ [][NextPair]_vars

\* ================================================================ claims
\* the record the loop is at (or has just left) and its outcome
ObsRecord == records[obs.rec]
OnRecord == obs.rec <= Len(records)
\* the driver has gone on to the record after obs.rec
Continued == pc = "loop" /\ idx = obs.rec + 1
\* main has returned n while at obs.rec
Exited(n) == pc = "exit" /\ exit_code = n /\ idx = obs.rec

\* --- normalisation, stated without the code's loops
Breaks(t) == {0} \cup {i \in 1..Len(t) : t[i] = NL} \cup {Len(t) + 1}
RawLineAt(t, p) ==
    LET q == CHOOSE b \in Breaks(t) : b > p /\ \A c \in Breaks(t) : c > p => b <= c
    IN SubSeq(t, p + 1, q - 1)
Trimmed(l) ==
    LET solid == {i \in 1..Len(l) : l[i] \notin {9, 10, 11, 12, 13, 32}}
    IN IF solid = {} THEN <<>>
       ELSE SubSeq(l, 1, CHOOSE i \in solid : \A j \in solid : j <= i)
NormLines(t) ==
    LET starts == {p \in Breaks(t) : p <= Len(t) /\ Trimmed(RawLineAt(t, p)) # <<>>}
        nth(k) == CHOOSE p \in starts : Cardinality({q \in starts : q < p}) = k - 1
    IN [k \in 1..Cardinality(starts) |-> Trimmed(RawLineAt(t, nth(k)))]
Occurrences(seq, x) == Cardinality({i \in 1..Len(seq) : seq[i] = x})
SameSequence(s, t) == Len(s) = Len(t) /\ \A i \in 1..Len(s) : s[i] = t[i]
SameMultiset(s, t) ==
    \A x \in {s[i] : i \in 1..Len(s)} \cup {t[i] : i \in 1..Len(t)} :
        Occurrences(s, x) = Occurrences(t, x)

Compared == obs.cmp # "none"
Produced == result_str
Expected == ObsRecord.expected_result

\* C8: ResultCompare returns true, under NOSORT, iff the normalised line
\* sequences (right-trimmed, empty lines dropped) of the two blocks are equal in
\* length and element-wise, and under ROWSORT iff they are equal as multisets;
\* "a\nb" against "b\na" is equal under ROWSORT and unequal under NOSORT.
C8_ResultCompareSemantics ==
    Compared =>
        /\ ObsRecord.sort_mode = "NOSORT" =>
              ((obs.cmp = "equal") <=> SameSequence(NormLines(Produced), NormLines(Expected)))
        /\ ObsRecord.sort_mode = "ROWSORT" =>
              ((obs.cmp = "equal") <=> SameMultiset(NormLines(Produced), NormLines(Expected)))
        /\ (Produced = TextAB /\ Expected = TextBA) =>
              ((obs.cmp = "equal") <=> ObsRecord.sort_mode = "ROWSORT")

C8_Witness ==
    /\ Compared
    /\ Produced = TextAB /\ Expected = TextBA
    /\ ObsRecord.sort_mode = "ROWSORT"
    /\ obs.cmp = "equal"

\* --- padding a block with ignorable whitespace
InsertAt(t, p, ins) == SubSeq(t, 1, p - 1) \o ins \o SubSeq(t, p, Len(t))
LineEnds(t) == {p \in 1..(Len(t) + 1) : p = Len(t) + 1 \/ t[p] = NL}
LineStarts(t) == {p \in 1..(Len(t) + 1) : p = 1 \/ t[p - 1] = NL}
\* t with one whitespace character appended to one line, or with one blank
\* (empty or whitespace-only) line inserted before a line or after the last
Paddings(t) ==
    {InsertAt(t, p, <<w>>) : p \in LineEnds(t), w \in {32, 9}}
    \cup {InsertAt(t, p, b \o <<NL>>) : p \in LineStarts(t), b \in {<<>>, <<32>>}}
    \cup {t \o <<NL>> \o b : b \in {<<>>, <<32>>}}

\* C9: comparing a block against itself yields equality under either sort
\* mode, and the result of a comparison does not change when whitespace is
\* appended to a line, or a blank line inserted, in either block.
C9_ReflexiveAndPaddingInsensitive ==
    Compared =>
        /\ \A m \in SortModes : ResultCompare(Produced, Produced, m)
        /\ \A m \in SortModes : ResultCompare(Expected, Expected, m)
        /\ Produced = Expected => obs.cmp = "equal"
        /\ \A padded \in Paddings(Produced) :
              ResultCompare(padded, Expected, ObsRecord.sort_mode) = (obs.cmp = "equal")
        /\ \A padded \in Paddings(Expected) :
              ResultCompare(Produced, padded, ObsRecord.sort_mode) = (obs.cmp = "equal")

C9_Witness ==
    /\ Compared
    /\ Produced = <<97, 32, NL>>
    /\ Expected = <<NL, 97>>
    /\ obs.cmp = "equal"

\* C10 as stated: both artifacts are written iff the comparison is unequal and
\* diff persistence is requested, and then hold the compared line sequences;
\* otherwise neither is touched.
C10_WrittenIffUnequalAndDiff ==
    Compared =>
        /\ (result_log.written /\ expected_log.written) <=> (obs.cmp = "unequal" /\ diff)
        /\ result_log.written <=> expected_log.written
        /\ result_log.written =>
              result_log.lines = ComparedLines(Produced, ObsRecord.sort_mode)
        /\ expected_log.written =>
              expected_log.lines = ComparedLines(Expected, ObsRecord.sort_mode)
        /\ (obs.cmp = "equal" \/ ~diff) => (result_log = Untouched /\ expected_log = Untouched)

\* the normalised lines of a block in the order they are compared in
IsCompared(lines, text, sort_mode) ==
    /\ lines = ComparedLines(text, sort_mode)
    /\ sort_mode = "NOSORT" => SameSequence(lines, NormLines(text))
    /\ sort_mode = "ROWSORT" => SameMultiset(lines, NormLines(text))

\* C10, amended: an artifact is opened only when the comparison is unequal and
\* diff persistence is requested; result.log is then written iff it opens, and
\* expected.log iff result.log and expected.log both open (a failed open makes
\* the run return 1); a written artifact holds exactly the line sequence that
\* was compared; on equality or without diff persistence neither is touched.
C10_DiffArtifacts ==
    Compared =>
        /\ result_log.written <=>
              (obs.cmp = "unequal" /\ diff /\ ~result_log.open_failed)
        /\ expected_log.written <=>
              (obs.cmp = "unequal" /\ diff /\ ~result_log.open_failed
                 /\ ~expected_log.open_failed)
        /\ result_log.written => IsCompared(result_log.lines, Produced, ObsRecord.sort_mode)
        /\ expected_log.written => IsCompared(expected_log.lines, Expected, ObsRecord.sort_mode)
        /\ (obs.cmp = "equal" \/ ~diff) => (result_log = Untouched /\ expected_log = Untouched)
        /\ (result_log.open_failed \/ expected_log.open_failed) => Exited(1)

C10_Witness ==
    /\ Compared
    /\ obs.cmp = "unequal" /\ diff
    /\ ObsRecord.sort_mode = "ROWSORT"
    /\ Produced = <<98, NL, 97>>
    /\ result_log.written /\ result_log.lines = << <<97>>, <<98>> >>
    /\ expected_log.written

\* ------------------------------------------------------------ the driver
IsStatement == OnRecord /\ ObsRecord.type = "STATEMENT"
IsQuery == OnRecord /\ ObsRecord.type = "QUERY"
\* no action of the driver is enabled any more
Terminal == ~ENABLED Next

\* C1: for a Statement whose directives have all passed (ProcessExtraOptions
\* returned true), an engine error of the main execution lets the driver go on
\* iff is_error is set and otherwise returns 1; a main execution that succeeds
\* lets it go on iff is_error is not set and otherwise returns 1.  Such a
\* Statement with is_error set goes on only if that execution raised an error.
C1_StatementOutcome ==
    (IsStatement /\ obs.opts = "true" /\ obs.exec # "none") =>
        /\ (obs.exec = "threw" /\ ObsRecord.is_error) => Continued
        /\ (obs.exec = "threw" /\ ~ObsRecord.is_error) => Exited(1)
        /\ (obs.exec = "ok" /\ ~ObsRecord.is_error) => Continued
        /\ (obs.exec = "ok" /\ ObsRecord.is_error) => Exited(1)
        /\ (ObsRecord.is_error /\ Continued) => obs.exec = "threw"

C1_Witness ==
    /\ IsStatement /\ obs.opts = "true"
    /\ ObsRecord.extra_options # <<>>
    /\ ObsRecord.is_error /\ obs.exec = "threw"
    /\ Continued

\* C2: a configuration error always ends the run with a non-zero exit code,
\* for Statement and Query records, whatever verbose and is_error are; the
\* driver never goes on to the next record after one.
C2_ConfigErrorAlwaysFatal ==
    (OnRecord /\ obs.opts = "config_error") =>
        (pc = "exit" /\ exit_code # 0 /\ idx = obs.rec)

\* C3: the only engine error that is absorbed is one raised by the main
\* execution of a Statement with is_error set; an engine error raised by a
\* session call of the directive processor returns 1, also on such a Statement.
C3_OnlyMainExecutionErrorAbsorbed ==
    /\ (OnRecord /\ obs.opts = "engine_error") => Exited(1)
    /\ (OnRecord /\ Continued /\ (obs.opts = "engine_error" \/ obs.exec = "threw")) =>
          (IsStatement /\ ObsRecord.is_error /\ obs.exec = "threw")

\* the record at obs.rec has ended in failure
Failed ==
    /\ OnRecord
    /\ \/ obs.opts = "false"
       \/ IsStatement /\ obs.exec = "threw" /\ ~ObsRecord.is_error
       \/ IsStatement /\ obs.opts = "engine_error" /\ ~ObsRecord.is_error
       \/ IsQuery /\ obs.opts = "engine_error"
       \/ IsStatement /\ obs.exec = "ok" /\ ObsRecord.is_error
       \/ IsQuery /\ obs.exec = "threw"
       \/ obs.cmp = "unequal"

\* C4: once a record has ended in failure main has returned 1, no action is
\* enabled and no session call belongs to a later record; session calls are
\* issued in stream order, each for the record the loop is at.
C4_TerminalAtFirstFailure ==
    /\ Failed =>
          /\ Exited(1)
          /\ Terminal
          /\ \A k \in 1..Len(calls) : calls[k].rec <= obs.rec
    /\ \A k \in 1..Len(calls) :
          /\ calls[k].rec <= idx
          /\ k < Len(calls) => calls[k].rec <= calls[k + 1].rec
    /\ pc \in {"opts", "timing", "exec", "compare"} => obs.rec = idx

C4_Witness ==
    /\ Failed
    /\ obs.rec = 1 /\ Len(records) = 2
    /\ records[2].type = "STATEMENT"
    /\ calls # <<>>

\* the loop has come to a HALT record
AtHalt == idx <= Len(records) /\ records[idx].type = "HALT"

\* C5: the loop never gets past a HALT record and no session call belongs to
\* it or to a record after it, whatever those records are; at a HALT record
\* main returns 0 at once, and no action is enabled after it.
C5_HaltTerminates ==
    /\ \A h \in 1..Len(records) :
          records[h].type = "HALT" =>
              /\ idx <= h
              /\ \A k \in 1..Len(calls) : calls[k].rec < h
    /\ (AtHalt /\ pc \notin {"start", "loop"}) =>
          /\ pc = "exit" /\ exit_code = 0
          /\ Terminal
    /\ (AtHalt /\ pc = "loop") => ENABLED Halt

C5_Witness ==
    /\ AtHalt /\ pc = "exit" /\ exit_code = 0
    /\ idx = 1 /\ Len(records) = 2
    /\ records[2] = StatementRecord(TRUE, <<>>)

\* C6: an engine error raised while a Query record is executed returns 1
\* whatever its directives are, and ResultCompare is called only when
\* ProcessExtraOptions has returned true and the main execution, the last
\* session call, has returned.
C6_QueryErrorsFatal ==
    /\ (IsQuery /\ (obs.exec = "threw" \/ obs.opts = "engine_error")) => Exited(1)
    /\ (pc = "compare" \/ Compared) =>
          /\ IsQuery
          /\ obs.opts = "true" /\ obs.exec = "ok"
          /\ calls # <<>>
          /\ calls[Len(calls)] =
                [rec |-> obs.rec, sql |-> <<ObsRecord.sql>>, check |-> <<check_options>>]
    /\ (OnRecord /\ (obs.opts \in {"false", "config_error", "engine_error"}
                       \/ obs.exec = "threw")) => ~Compared /\ pc # "compare"

C6_Witness ==
    /\ IsQuery
    /\ ObsRecord.extra_options = << <<"explain", "o">> >>
    /\ obs.opts = "true" /\ obs.exec = "threw"
    /\ Exited(1)

\* C7: for a Query whose directives pass and whose main execution succeeds,
\* the driver goes on to the next record iff ResultCompare reports equality of
\* the captured output and expected_result under the record's sort mode, and
\* returns 1 on a mismatch.
C7_QueryContinuesIffEqual ==
    (IsQuery /\ obs.opts = "true" /\ obs.exec = "ok" /\ Compared) =>
        /\ Continued <=> obs.cmp = "equal"
        /\ obs.cmp = "unequal" => Exited(1)
        /\ (obs.cmp = "equal") <=>
              IF ObsRecord.sort_mode = "ROWSORT"
              THEN SameMultiset(NormLines(Produced), NormLines(Expected))
              ELSE SameSequence(NormLines(Produced), NormLines(Expected))

C7_Witness ==
    /\ IsQuery /\ Compared
    /\ ObsRecord.sort_mode = "NOSORT"
    /\ Produced = TextBA /\ Expected = TextBA
    /\ Continued

\* ------------------------------------------------------- the directives
IsTiming(opt) == opt[1] = "timing"
\* the N of a timing directive's x<N> argument, 1 when it has none
RunsAsked(opt) ==
    LET ns == {n \in 0..3 : \E k \in 2..Len(opt) :
                  opt[k] = <<"x0", "x1", "x2", "x3">>[n + 1]}
    IN IF ns = {} THEN 1 ELSE CHOOSE n \in ns : TRUE

\* the session calls issued for record i
CallsOf(i) == {k \in 1..Len(calls) : calls[k].rec = i}

\* the session calls one directive issues when nothing fails
CallsBy(opt) ==
    IF IsTiming(opt) THEN RunsAsked(opt) ELSE 1

RECURSIVE CallsByFirst(_, _)
CallsByFirst(extra_options, n) ==
    IF n = 0 THEN 0
    ELSE CallsByFirst(extra_options, n - 1)
         + (IF n < Len(extra_options) + 1 THEN CallsBy(extra_options[n]) ELSE 0)

\* the check options the first n directives of a record ask for
FlagsOf(extra_options, n) ==
    {"ENABLE_TOPN_CHECK" : k \in {h \in 1..n :
         extra_options[h] \in {<<"ensure", "topn">>, <<"ensure", "topn*2">>}}}
    \cup {"ENABLE_NLJ_CHECK" : k \in {h \in 1..n :
         extra_options[h] = <<"ensure", "nlj_init_check">>}}

\* the session calls that are main executions: they carry CheckOptions
IsMain(call) == call.check # <<>>

\* C11: the CheckOptions passed to a record's main execution hold exactly the
\* flags of that record's own directives, all of which have passed by then
\* (top-N check iff it has ensure:topn or ensure:topn*2, nested-loop-join
\* check iff it has ensure:nlj_init_check), whatever the records before it
\* enabled; the set is empty when a record's directives begin and holds, at
\* every directive, the flags of the directives of this record passed so far.
C11_CheckOptionsPerRecord ==
    /\ \A k \in 1..Len(calls) :
          IsMain(calls[k]) =>
              LET r == records[calls[k].rec]
              IN calls[k].check[1] = FlagsOf(r.extra_options, Len(r.extra_options))
    /\ pc \in {"opts", "timing"} =>
          check_options = FlagsOf(Record.extra_options, opt_idx - 1)
    /\ (pc = "opts" /\ opt_idx = 1) => check_options = {}
    /\ pc = "exec" =>
          check_options = FlagsOf(Record.extra_options, Len(Record.extra_options))

C11_Witness ==
    /\ Len(records) = 2 /\ Len(calls) = 4
    /\ records[1].extra_options = << <<"ensure", "topn">> >>
    /\ records[2].extra_options = << <<"ensure", "nlj_init_check">> >>
    /\ calls[2] = [rec |-> 1, sql |-> <<"ordered">>, check |-> <<{"ENABLE_TOPN_CHECK"}>>]
    /\ calls[4] = [rec |-> 2, sql |-> <<"ordered">>, check |-> <<{"ENABLE_NLJ_CHECK"}>>]

\* C12: when a directive of a Statement or Query fails its assertion, main
\* returns 1 at that directive, also for a Statement with is_error set: the
\* EXPLAIN (o) of the failing directive is the last session call, the record
\* has issued only the calls of its directives up to that one, none of them a
\* main execution, and nothing is enabled afterwards.  ensure:index_scan
\* fails on every plan that has no IndexScan marker.
C12_AssertionFailureAborts ==
    /\ (OnRecord /\ obs.opts = "false") =>
          /\ Exited(1)
          /\ Terminal
          /\ calls # <<>>
          /\ calls[Len(calls)] =
                [rec |-> obs.rec, sql |-> <<"explain (o) ", ObsRecord.sql>>, check |-> <<>>]
          /\ Cardinality(CallsOf(obs.rec)) = CallsByFirst(ObsRecord.extra_options, opt_idx)
          /\ \A k \in CallsOf(obs.rec) : ~IsMain(calls[k])
          /\ stdout[Len(stdout)].kind = "failed to process extra options"
    /\ (pc = "opts" /\ opt_idx > 1 /\ obs.opts = "none"
          /\ Record.extra_options[opt_idx - 1] = <<"ensure", "index_scan">>) =>
             Contains(obs.plan, "IndexScan")
    /\ (OnRecord /\ pc = "exit" /\ obs.opts \in {"none", "false"} /\ obs.plan # <<>>
          /\ ObsRecord.extra_options[opt_idx] = <<"ensure", "index_scan">>
          /\ ~Contains(obs.plan, "IndexScan")) => obs.opts = "false"

C12_Witness ==
    /\ IsStatement /\ ObsRecord.is_error
    /\ ObsRecord.extra_options = << <<"ensure", "index_scan">>, <<"explain">> >>
    /\ obs.opts = "false" /\ ~Contains(obs.plan, "IndexScan")
    /\ Exited(1) /\ Len(calls) = 1

\* ------------------------------------------------------ plan assertions
\* the directive an assertion has been evaluated for, and its plan
Ensured == OnRecord /\ obs.plan # <<>>
EnsuredOpt == ObsRecord.extra_options[IF obs.opts = "none" THEN opt_idx - 1 ELSE opt_idx]
EnsureFailed == obs.opts = "false" /\ Exited(1)
EnsurePassed == obs.opts = "none" /\ pc = "opts"

\* the lines of a plan, stated on the positions of its line breaks
PlanBreaks(plan) ==
    {0} \cup {i \in 1..Len(plan) : plan[i] = "\n"} \cup {Len(plan) + 1}
PlanLineFrom(plan, p) ==
    LET q == CHOOSE b \in PlanBreaks(plan) :
                 b > p /\ \A c \in PlanBreaks(plan) : c > p => b <= c
    IN SubSeq(plan, p + 1, q - 1)
LineStartsOf(plan) == {p \in PlanBreaks(plan) : p <= Len(plan)}
\* the node a line names: its first token that is not a blank
NodeOf(line) ==
    LET solid == {i \in 1..Len(line) : line[i] # " "}
    IN IF solid = {} THEN "" ELSE line[CHOOSE i \in solid : \A j \in solid : i <= j]
\* the entries of a column list: one more than its separators
Entries(list) == Cardinality({i \in 1..Len(list) : list[i] = "quote-comma"}) + 1
\* the first and second bracketed list of an aggregation line
ListEnds(line) == {i \in 1..Len(line) : line[i] = "],"}
FirstList(line) ==
    SubSeq(line, 1, (CHOOSE i \in ListEnds(line) : \A j \in ListEnds(line) : i <= j) - 1)
SecondList(line) ==
    LET e1 == CHOOSE i \in ListEnds(line) : \A j \in ListEnds(line) : i <= j
        e2 == CHOOSE i \in ListEnds(line) \ {e1} : \A j \in ListEnds(line) \ {e1} : i <= j
    IN SubSeq(line, e1 + 1, e2 - 1)

IsColumnPruned(opt) == Len(opt) = 4 /\ opt[2] = "column-pruned"
ProjectionStarts(plan) ==
    {p \in LineStartsOf(plan) : NodeOf(PlanLineFrom(plan, p)) = "Projection"}
AggStarts(plan) == {p \in LineStartsOf(plan) : NodeOf(PlanLineFrom(plan, p)) = "Agg"}
FirstAgg(plan) ==
    PlanLineFrom(plan, CHOOSE p \in AggStarts(plan) : \A q \in AggStarts(plan) : p <= q)
WellFormedAgg(line) == Cardinality(ListEnds(line)) = 2 /\ line[Len(line)] # "],"

\* C13: ensure:column-pruned:<P>:<A> fails whenever the plan has a projection
\* line with more than P columns, before or after the first aggregation line,
\* and whenever the first aggregation line has a first or second list of
\* more than A entries.
C13_EveryWideProjectionFails ==
    (Ensured /\ IsColumnPruned(EnsuredOpt)) =>
        LET P == Stoi[EnsuredOpt[3]]
            A == Stoi[EnsuredOpt[4]]
        IN /\ (\E p \in ProjectionStarts(obs.plan) :
                  Entries(PlanLineFrom(obs.plan, p)) > P) => EnsureFailed
           /\ (/\ AggStarts(obs.plan) # {}
               /\ WellFormedAgg(FirstAgg(obs.plan))
               /\ \/ Entries(FirstList(FirstAgg(obs.plan))) > A
                  \/ Entries(SecondList(FirstAgg(obs.plan))) > A) => EnsureFailed

\* the scan of lines 154-176 stops at the first aggregation line: the
\* directive fails iff a projection line above it has more than P columns, or
\* that aggregation line is malformed or has a list of more than A entries
ColumnPrunedScansToFirstAgg ==
    (Ensured /\ IsColumnPruned(EnsuredOpt)) =>
        LET P == Stoi[EnsuredOpt[3]]
            A == Stoi[EnsuredOpt[4]]
            above == {p \in ProjectionStarts(obs.plan) :
                         \A q \in AggStarts(obs.plan) : p < q}
            wide == \E p \in above : Entries(PlanLineFrom(obs.plan, p)) > P
            agg == /\ AggStarts(obs.plan) # {}
                   /\ \/ ~WellFormedAgg(FirstAgg(obs.plan))
                      \/ Entries(FirstList(FirstAgg(obs.plan))) > A
                      \/ Entries(SecondList(FirstAgg(obs.plan))) > A
        IN EnsureFailed <=> (wide \/ agg)

\* the fragments the hash-join marker cuts a plan into: the maximal runs of
\* other tokens, and the plan itself when there is no such run
Fragments(plan) ==
    LET runs == {i \in 1..Len(plan) :
                    plan[i] # "HashJoin" /\ (i = 1 \/ plan[i - 1] = "HashJoin")}
    IN IF runs = {} THEN 1 ELSE Cardinality(runs)
HasFilter(plan) == \E i \in 1..Len(plan) : plan[i] = "Filter"
FilterAfterOptimizer(plan) ==
    \E i \in 1..Len(plan), j \in 1..Len(plan) :
        plan[i] = "OPTIMIZER" /\ plan[j] = "Filter" /\ i < j
HashJoinTimes ==
    (<<"ensure", "hash_join">> :> 1) @@ (<<"ensure", "hash_join*2">> :> 2)
    @@ (<<"ensure", "hash_join*3">> :> 3)

\* C16: ensure:hash_join, ensure:hash_join*2 and ensure:hash_join*3 (k = 1,
\* 2, 3) fail iff the hash-join marker does not cut the plan into exactly
\* k + 1 fragments and the plan has no filter node anywhere, so with a filter
\* node they pass whatever the number of hash joins; ensure:hash_join_no_filter
\* fails iff the fragments are not 2 or a filter node stands after the
\* optimizer marker.  An assertion that does not fail passes.
C16_HashJoinAssertions ==
    Ensured =>
        /\ EnsuredOpt \in DOMAIN HashJoinTimes =>
              /\ EnsureFailed <=>
                    (Fragments(obs.plan) # HashJoinTimes[EnsuredOpt] + 1
                       /\ ~HasFilter(obs.plan))
              /\ HasFilter(obs.plan) => EnsurePassed
              /\ EnsureFailed \/ EnsurePassed
        /\ EnsuredOpt = <<"ensure", "hash_join_no_filter">> =>
              /\ EnsureFailed <=>
                    (Fragments(obs.plan) # 2 \/ FilterAfterOptimizer(obs.plan))
              /\ EnsureFailed \/ EnsurePassed

C16_Witness ==
    /\ Ensured
    /\ EnsuredOpt = <<"ensure", "hash_join*2">>
    /\ obs.plan = JoinOn(<<OptimizerLine, FilterLine>>, "\n")
    /\ Fragments(obs.plan) = 1
    /\ EnsurePassed

\* ------------------------------------------------------------- timing
\* the timing directive before opt_idx has just been completed
JustTimed ==
    /\ pc = "opts" /\ opt_idx > 1 /\ obs.opts = "none"
    /\ IsTiming(Record.extra_options[opt_idx - 1])
TimedOpt == Record.extra_options[opt_idx - 1]
\* where the summary line of the directive just completed stands in stdout
SummaryAt == Len(stdout) - 1 - (IF verbose THEN 1 ELSE 0)
IsPass(line, n) == line.kind = "timing pass complete" /\ line.arg = n
\* the call of one timing repetition of record i
TimingCall(i) == [rec |-> i, sql |-> <<records[i].sql>>, check |-> <<>>]

\* C14: a timing directive executes the record's SQL exactly N times, N the
\* count of its x<N> argument and 1 without one, one run after the other and
\* with no CheckOptions, and then prints one summary line of exactly N
\* non-negative durations between the begin and the end marker.  Every
\* summary line on standard output stands between the two markers and after
\* the N completed passes it reports; while runs are still due none is
\* printed.
C14_TimingRunsThenSummary ==
    /\ \A i \in 1..Len(stdout) :
          stdout[i].kind = "summary" =>
              LET N == Len(stdout[i].arg.values)
              IN /\ i > N + 1 /\ i < Len(stdout)
                 /\ stdout[i - 1].kind = "<<<BEGIN"
                 /\ stdout[i + 1].kind = ">>>END"
                 /\ \A n \in 1..N : IsPass(stdout[i - 1 - N + n - 1], n)
                 /\ \A n \in 1..N : stdout[i].arg.values[n] \in Nat
    /\ JustTimed =>
          LET N == RunsAsked(TimedOpt)
          IN /\ SummaryAt >= 1
             /\ stdout[SummaryAt].kind = "summary"
             /\ Len(stdout[SummaryAt].arg.values) = N
             /\ Len(calls) >= N
             /\ \A n \in 1..N : calls[Len(calls) - N + n] = TimingCall(idx)
             /\ Cardinality(CallsOf(idx)) = CallsByFirst(Record.extra_options, opt_idx - 1)
    /\ pc = "timing" =>
          /\ repeat = RunsAsked(Opt)
          /\ Len(duration) <= repeat
          /\ Len(stdout) >= Len(duration)
          /\ \A n \in 1..Len(duration) :
                /\ IsPass(stdout[Len(stdout) - Len(duration) + n], n)
                /\ calls[Len(calls) - Len(duration) + n] = TimingCall(idx)
          /\ Len(duration) < repeat => ~ENABLED TimingReport

C14_Witness ==
    /\ JustTimed
    /\ TimedOpt = <<"timing", "x2", ".bench">>
    /\ stdout[SummaryAt] = SummaryLine(".bench", <<0, 0>>)
    /\ Len(calls) = 2

\* --------------------------------------------------------- thresholds
\* a threshold in use is violated by the counters as they stand
TooFewWrites == min_disk_write # <<>> /\ num_writes < min_disk_write[1]
TooManyWrites == max_disk_write # <<>> /\ num_writes > max_disk_write[1]
TooFewDeletes == min_disk_delete # <<>> /\ num_deletes < min_disk_delete[1]
ThresholdViolated == TooFewWrites \/ TooManyWrites \/ TooFewDeletes
\* a line of a threshold check stands on standard output
ThresholdReported ==
    \E i \in 1..Len(stdout) :
        stdout[i].kind \in {"disk write too low", "disk write too high",
                            "disk deletion too low"}
NoHalt == \A h \in 1..Len(records) : records[h].type # "HALT"
\* main has returned after every record was processed
RanToEnd == pc = "exit" /\ idx > Len(records)

\* C15: for every record sequence without a Halt, the empty one included, in
\* which no record aborts the run, main returns 1 if a threshold in use is
\* violated by the session's counters (writes below the minimum, writes above
\* the maximum, deletes below the minimum) and 0 iff none is; no threshold is
\* evaluated before the last record has finished.
C15_ThresholdsDecideExit ==
    /\ (NoHalt /\ RanToEnd) =>
          /\ ThresholdViolated => exit_code = 1
          /\ exit_code = 0 <=> ~ThresholdViolated
    /\ ThresholdReported => RanToEnd
    /\ (pc = "loop" /\ idx <= Len(records)) => ~ENABLED EndOfStream

\* the same for the sequences that have a record: they are the only ones
\* whose thresholds are looked at
ThresholdsAfterNonEmptyStream ==
    /\ (NoHalt /\ RanToEnd /\ records # <<>>) =>
          /\ ThresholdViolated => exit_code = 1 /\ ThresholdReported
          /\ exit_code = 0 <=> ~ThresholdViolated
    /\ (RanToEnd /\ records = <<>>) => exit_code = 0 /\ ~ThresholdReported
    /\ ThresholdReported => RanToEnd
    /\ (pc = "loop" /\ idx <= Len(records)) => ~ENABLED EndOfStream

\* C18: a run that comes to a Halt record returns 0 there and evaluates no
\* threshold, also when the counters violate a minimum-write, maximum-write
\* or minimum-delete threshold in use at that moment; the loop never goes
\* past a Halt record to the threshold checks.
C18_HaltSkipsThresholds ==
    \A h \in 1..Len(records) :
        records[h].type = "HALT" =>
            /\ idx <= h
            /\ ~ThresholdReported
            /\ (pc = "exit" /\ idx = h) => exit_code = 0
            /\ (pc = "loop" /\ idx = h) => ENABLED Halt /\ ~ENABLED EndOfStream

C18_Witness ==
    /\ Len(records) = 2 /\ records[2].type = "HALT"
    /\ pc = "exit" /\ idx = 2 /\ exit_code = 0
    /\ min_disk_write = <<2>> /\ max_disk_write = <<1>> /\ min_disk_delete = <<1>>
    /\ num_writes = 1 /\ num_deletes = 0
    /\ TooFewWrites /\ TooFewDeletes

\* ------------------------------------------------------------ explain
\* the explain directive before opt_idx has just passed
JustExplained ==
    /\ pc = "opts" /\ opt_idx > 1 /\ obs.opts = "none"
    /\ Record.extra_options[opt_idx - 1][1] = "explain"
ExplainedOpt == Record.extra_options[opt_idx - 1]

\* C17: an explain directive issues exactly one session call before the main
\* execution: "explain <sql>" without an option list when the directive is
\* explain alone, and "explain (<options>) <sql>" when it is
\* explain:<options>.
C17_ExplainCall ==
    JustExplained =>
        /\ calls # <<>>
        /\ calls[Len(calls)] =
              [rec |-> idx,
               sql |-> IF Len(ExplainedOpt) = 1
                       THEN <<"explain ", Record.sql>>
                       ELSE <<"explain (", ExplainedOpt[2], ") ", Record.sql>>,
               check |-> <<>>]
        /\ Cardinality(CallsOf(idx)) = CallsByFirst(Record.extra_options, opt_idx - 1)

\* lines 215-220 as they behave: Split never returns an empty piece, so the
\* option list is always sent, and for explain alone it is the directive
\* itself
ExplainAlwaysSendsOptionList ==
    JustExplained =>
        /\ calls # <<>>
        /\ calls[Len(calls)] =
              [rec |-> idx,
               sql |-> <<"explain (",
                         IF Len(ExplainedOpt) = 1 THEN "explain" ELSE ExplainedOpt[2],
                         ") ", Record.sql>>,
               check |-> <<>>]
        /\ Cardinality(CallsOf(idx)) = CallsByFirst(Record.extra_options, opt_idx - 1)

\* the record at obs.rec carries one directive, a timing directive, and all
\* its session calls, the main execution included, have returned
TimedAndExecuted ==
    /\ OnRecord /\ obs.opts = "true" /\ obs.exec = "ok"
    /\ Len(ObsRecord.extra_options) = 1
    /\ IsTiming(ObsRecord.extra_options[1])

\* C20: for a record whose only directive is timing:x<N>, N >= 0, and whose
\* session calls all return, the session receives the record's SQL exactly
\* N + 1 times: N timing repetitions with no CheckOptions, and after all of
\* them one main execution with the record's CheckOptions; the repetitions do
\* not replace the main execution, and each of the N + 1 may write.
C20_TimingPlusMain ==
    TimedAndExecuted =>
        LET N == RunsAsked(ObsRecord.extra_options[1])
        IN /\ Cardinality(CallsOf(obs.rec)) = N + 1
           /\ Len(calls) >= N + 1
           /\ \A n \in 1..N : calls[Len(calls) - N - 1 + n] = TimingCall(obs.rec)
           /\ calls[Len(calls)] =
                 [rec |-> obs.rec, sql |-> <<ObsRecord.sql>>, check |-> <<{}>>]
           /\ obs.rec = 1 => num_writes <= N + 1

C20_Witness ==
    /\ TimedAndExecuted /\ IsStatement
    /\ ObsRecord.extra_options = << <<"timing", "x1">> >>
    /\ obs.rec = 1 /\ Len(calls) = 2
    /\ num_writes = 2

\* ------------------------------------------------- verbose and diff
IsPrefix(s1, s2) == Len(s1) <= Len(s2) /\ \A k \in 1..Len(s1) : s1[k] = s2[k]
SecondRun == prior # <<>>
First == prior[1]

\* C19: two runs over the same records and the same session behaviour that
\* differ only in --verbose and --diff send the same SQL texts in the same
\* order, pass the same CheckOptions with each main execution, stop at the
\* same record and return the same exit code, also when a diff artifact of
\* one of them cannot be opened.
C19_FlagsAreOutcomeNeutral ==
    SecondRun =>
        /\ <<First.verbose, First.diff>> # <<verbose, diff>>
        /\ IsPrefix(calls, First.calls)
        /\ idx <= First.idx
        /\ pc = "exit" =>
              /\ calls = First.calls
              /\ idx = First.idx
              /\ exit_code = First.exit_code

C19_Witness ==
    /\ SecondRun /\ pc = "exit"
    /\ ~First.diff /\ ~First.verbose /\ diff /\ verbose
    /\ Len(records) = 2 /\ idx = 2
    /\ records[1] = On("ab", QueryRecord(TextAB, "NOSORT", << <<"explain", "o">> >>))
    /\ records[2] = On("ab", QueryRecord(TextBA, "NOSORT", <<>>))
    /\ result_log.open_failed
    /\ exit_code = 1 /\ First.exit_code = 1
    /\ Len(calls) = 3

====
